---- MODULE Spec2Model ----
\* Model of SimpleTodoApi: the Task entity (src/models.py), the TaskStorage
\* store with its flat-file persistence (src/storage.py) and the HTTP request
\* handler (src/handler.py).
EXTENDS Integers, Sequences, FiniteSets, TLC

\* ---------------------------------------------------------------- bounds
MaxFileRecs == 2      \* most records in a pre-existing backing file
MaxNextId == 2        \* create_task is explored while next_id <= MaxNextId
MaxFaults == 1        \* I/O failures and kills after start-up in one behaviour

\* ------------------------------------------------------------ JSON values
\* A JSON scalar as Python sees it after json.load: a str (a sequence of
\* one-character strings), an int, a float, or null.
Str(s) == [t |-> "str", s |-> s, n |-> 0]
Num(n) == [t |-> "int", s |-> <<>>, n |-> n]
Null == [t |-> "null", s |-> <<>>, n |-> 0]

\* json.load reads a number written with an exponent or a fraction, such as
\* 1e16, as a float.  The floats here are those of 2^53 and more, which
\* x + 1 leaves as they are; BigFloat stands for the least of them and is
\* above every int of the model.
BigFloat == 1000000
Float(n) == [t |-> "float", s |-> <<>>, n |-> n]

\* x + 1 on an int or a float
plus_one(x) == IF x >= BigFloat THEN x ELSE x + 1

Whitespace == {" "}

\* Titles callers pass: empty, blank, plain, and padded with whitespace
Titles == { <<>>, <<" ">>, <<"a">>, <<" ", "a", " ">> }
\* Priorities callers pass: a valid one that is not the default, and two
\* outside the three
Priorities == {"high", "urgent", ""}
\* Ids callers pass: every id a task can have here, and one past them
TaskIds == 0 .. (MaxNextId + 1)

\* str.strip(): drop leading and trailing whitespace
RECURSIVE lstrip(_)
lstrip(s) == IF s # <<>> /\ Head(s) \in Whitespace THEN lstrip(Tail(s)) ELSE s

RECURSIVE rstrip(_)
rstrip(s) ==
    IF s # <<>> /\ s[Len(s)] \in Whitespace THEN rstrip(SubSeq(s, 1, Len(s) - 1)) ELSE s

strip(s) == rstrip(lstrip(s))

\* ------------------------------------------------------------------ Task
VALID_PRIORITIES == {"low", "normal", "high"}

NoTask == [id |-> Null, title |-> <<>>, priority |-> "", is_done |-> FALSE]

\* Task.__init__ without the priority check
Task_any_priority(title, priority, task_id, is_done) ==
    IF title.t = "null" \/ (title.t = "int" /\ title.n = 0) \/ (title.t = "str" /\ title.s = <<>>)
    THEN [exc |-> "ValueError", task |-> NoTask]
    ELSE IF title.t # "str"
    THEN [exc |-> "AttributeError", task |-> NoTask]
    ELSE IF strip(title.s) = <<>>
    THEN [exc |-> "ValueError", task |-> NoTask]
    ELSE [exc |-> "none",
          task |-> [id |-> task_id, title |-> title.s, priority |-> priority, is_done |-> is_done]]

\* Task.__init__: the outcome is the exception raised ("none" when the
\* object is built) and the object.  title is a JSON value: truthiness and
\* .strip() depend on its type.
Task(title, priority, task_id, is_done) ==
    IF title.t = "null" \/ (title.t = "int" /\ title.n = 0) \/ (title.t = "str" /\ title.s = <<>>)
    THEN [exc |-> "ValueError", task |-> NoTask]
    ELSE IF title.t # "str"
    THEN [exc |-> "AttributeError", task |-> NoTask]
    ELSE IF strip(title.s) = <<>>
    THEN [exc |-> "ValueError", task |-> NoTask]
    ELSE IF priority \notin VALID_PRIORITIES
    THEN [exc |-> "ValueError", task |-> NoTask]
    ELSE [exc |-> "none",
          task |-> [id |-> task_id, title |-> title.s, priority |-> priority, is_done |-> is_done]]

\* A JSON array element of the backing file: an object with some of the four
\* keys, or a non-object value.
AllKeys == {"id", "title", "priority", "isDone"}

Obj(keys, id, title, priority, isDone) ==
    [obj |-> TRUE, keys |-> keys, id |-> id, title |-> title, priority |-> priority, isDone |-> isDone]

NonObj == [obj |-> FALSE, keys |-> {}, id |-> Null, title |-> Null, priority |-> "", isDone |-> FALSE]

to_dict(task) == Obj(AllKeys, task.id, Str(task.title), task.priority, task.is_done)

\* from_dict that looks up "is_done", a key the records do not have
from_dict_wrong_key(data) ==
    IF ~data.obj THEN [exc |-> "TypeError", task |-> NoTask]
    ELSE IF "title" \notin data.keys THEN [exc |-> "KeyError", task |-> NoTask]
    ELSE IF "id" \notin data.keys THEN [exc |-> "KeyError", task |-> NoTask]
    ELSE Task(data.title,
              IF "priority" \in data.keys THEN data.priority ELSE "normal",
              data.id,
              FALSE)

from_dict(data) ==
    IF ~data.obj THEN [exc |-> "TypeError", task |-> NoTask]
    ELSE IF "title" \notin data.keys THEN [exc |-> "KeyError", task |-> NoTask]
    ELSE IF "id" \notin data.keys THEN [exc |-> "KeyError", task |-> NoTask]
    ELSE Task(data.title,
              IF "priority" \in data.keys THEN data.priority ELSE "normal",
              data.id,
              IF "isDone" \in data.keys THEN data.isDone ELSE FALSE)

\* complete that forgets the assignment
complete_forgets(task) == task

complete(task) == IF ~task.is_done THEN [task EXCEPT !.is_done = TRUE] ELSE task

\* ------------------------------------------------------- the tasks dict
\* self.tasks is a dict keyed by task id; Python dicts keep insertion order,
\* so it is a sequence of Task objects with pairwise different ids.
Keys(d) == {d[i].id : i \in 1 .. Len(d)}

\* self.tasks[task.id] = task
DictSet(d, task) ==
    IF task.id \in Keys(d)
    THEN [i \in 1 .. Len(d) |-> IF d[i].id = task.id THEN task ELSE d[i]]
    ELSE Append(d, task)

\* self.tasks.get(task_id): the Task, or None
get_task(d, task_id) ==
    IF task_id \in Keys(d)
    THEN d[CHOOSE i \in 1 .. Len(d) : d[i].id = task_id]
    ELSE NoTask

get_all_tasks(d) == d

\* ------------------------------------------------------------ file system
\* What a path holds: nothing, a JSON array of elements, some other valid
\* JSON document, text that json.load rejects, or the prefix of a dump that
\* was cut short (which json.load rejects as well).
Missing == [kind |-> "missing", recs |-> <<>>]
Garbage == [kind |-> "garbage", recs |-> <<>>]
Partial == [kind |-> "partial", recs |-> <<>>]
NonArray == [kind |-> "nonarray", recs |-> <<>>]
Array(recs) == [kind |-> "array", recs |-> recs]

Filename == "tasks.txt"

\* the dump written straight to the backing file
TempFilename_is_target(filename) == filename

TempFilename(filename) == filename \o ".tmp"
Paths == {Filename, TempFilename(Filename)}

\* os.replace(src, dst)
Replace(disk, src, dst) ==
    IF src = dst THEN disk ELSE [disk EXCEPT ![dst] = disk[src], ![src] = Missing]

\* json.dump of [task.to_dict() for task in self.tasks.values()]
JsonDump(d) == Array([i \in 1 .. Len(d) |-> to_dict(d[i])])

\* ------------------------------------------------------------ TaskStorage
\* The loop of _load_tasks over the parsed array, from element i on.  A
\* KeyError or ValueError of Task.from_dict skips the element; any other
\* exception leaves the loop.  The element is put in the dict before its id
\* is compared with next_id, and that comparison raises TypeError when the
\* id is not a number; next_id becomes id + 1.
RECURSIVE LoadLoop(_, _, _, _)
LoadLoop(recs, i, d, nid) ==
    IF i > Len(recs) THEN [exc |-> "none", tasks |-> d, next_id |-> nid]
    ELSE LET r == from_dict(recs[i])
         IN IF r.exc \in {"KeyError", "ValueError"} THEN LoadLoop(recs, i + 1, d, nid)
            ELSE IF r.exc # "none" THEN [exc |-> r.exc, tasks |-> d, next_id |-> nid]
            ELSE IF r.task.id.t \notin {"int", "float"}
            THEN [exc |-> "TypeError", tasks |-> DictSet(d, r.task), next_id |-> nid]
            ELSE LoadLoop(recs, i + 1, DictSet(d, r.task),
                          IF r.task.id.n >= nid THEN plus_one(r.task.id.n) ELSE nid)

\* What open(self.filename, "r") does when the file exists
ReadOutcomes == {"ok", "PermissionError", "OSError"}

\* _load_tasks whose last handler keeps what the loop had loaded
load_tasks_keeps_loaded(disk, filename, read) ==
    LET content == disk[filename]
        loop == LoadLoop(content.recs, 1, <<>>, 1)
        reset(b) == [branch |-> b, exc |-> "none", tasks |-> <<>>, next_id |-> 1]
    IN IF content.kind = "missing" THEN reset("not found")
       ELSE IF read = "PermissionError"
       THEN [branch |-> "PermissionError", exc |-> "PermissionError", tasks |-> <<>>, next_id |-> 1]
       ELSE IF read = "OSError" THEN reset("Exception")
       ELSE IF content.kind \in {"garbage", "partial"} THEN reset("JSONDecodeError")
       ELSE IF content.kind = "nonarray" THEN reset("Exception")
       ELSE IF loop.exc # "none"
       THEN [branch |-> "Exception", exc |-> "none", tasks |-> loop.tasks, next_id |-> loop.next_id]
       ELSE [branch |-> "loaded", exc |-> "none", tasks |-> loop.tasks, next_id |-> loop.next_id]

\* TaskStorage._load_tasks on a new store (tasks = {}, next_id = 1).
\* branch names the path taken; exc is the exception that leaves the method.
\* _load_tasks that leaves next_id at 1 after loading the tasks
load_tasks_restarts_ids(disk, filename, read) ==
    LET content == disk[filename]
        loop == LoadLoop(content.recs, 1, <<>>, 1)
        reset(b) == [branch |-> b, exc |-> "none", tasks |-> <<>>, next_id |-> 1]
    IN IF content.kind = "missing" THEN reset("not found")
       ELSE IF read = "PermissionError"
       THEN [branch |-> "PermissionError", exc |-> "PermissionError", tasks |-> <<>>, next_id |-> 1]
       ELSE IF read = "OSError" THEN reset("Exception")
       ELSE IF content.kind \in {"garbage", "partial"} THEN reset("JSONDecodeError")
       ELSE IF content.kind = "nonarray" THEN reset("Exception")
       ELSE IF loop.exc # "none" THEN reset("Exception")
       ELSE [branch |-> "loaded", exc |-> "none", tasks |-> loop.tasks, next_id |-> 1]

\* TaskStorage._load_tasks
load_tasks(disk, filename, read) ==
    LET content == disk[filename]
        loop == LoadLoop(content.recs, 1, <<>>, 1)
        reset(b) == [branch |-> b, exc |-> "none", tasks |-> <<>>, next_id |-> 1]
    IN IF content.kind = "missing" THEN reset("not found")
       ELSE IF read = "PermissionError"
       THEN [branch |-> "PermissionError", exc |-> "PermissionError", tasks |-> <<>>, next_id |-> 1]
       ELSE IF read = "OSError" THEN reset("Exception")
       ELSE IF content.kind \in {"garbage", "partial"} THEN reset("JSONDecodeError")
       ELSE IF content.kind = "nonarray" THEN reset("Exception")
       ELSE IF loop.exc # "none" THEN reset("Exception")
       ELSE [branch |-> "loaded", exc |-> "none", tasks |-> loop.tasks, next_id |-> loop.next_id]

\* How a call of save_tasks ends: it returns True; open() of the temporary
\* file raises; json.dump raises after part of the text was written;
\* os.replace raises; or the process is ended while writing, or between the
\* write and the replace.
SaveReturns == {"ok", "PermissionError", "write error", "replace error"}
SaveKilled == {"killed writing", "killed before replace"}
SaveOutcomes == SaveReturns \cup SaveKilled

\* TaskStorage.save_tasks
save_tasks(d, disk, filename, outcome) ==
    LET temp_filename == TempFilename(filename)
        opened == [disk EXCEPT ![temp_filename] = Partial]
        dumped == [disk EXCEPT ![temp_filename] = JsonDump(d)]
    IN CASE outcome = "PermissionError" -> [disk |-> disk, ret |-> FALSE, killed |-> FALSE]
         [] outcome = "write error" -> [disk |-> opened, ret |-> FALSE, killed |-> FALSE]
         [] outcome = "killed writing" -> [disk |-> opened, ret |-> FALSE, killed |-> TRUE]
         [] outcome = "replace error" -> [disk |-> dumped, ret |-> FALSE, killed |-> FALSE]
         [] outcome = "killed before replace" -> [disk |-> dumped, ret |-> FALSE, killed |-> TRUE]
         [] outcome = "ok" ->
              [disk |-> Replace(dumped, temp_filename, filename), ret |-> TRUE, killed |-> FALSE]

\* create_task that takes the id before it validates
create_task_reserves_id(d, nid, disk, title, priority, outcome) ==
    LET failed(e, m) == [exc |-> e, msg |-> m, task |-> NoTask, tasks |-> d, next_id |-> nid + 1,
                      disk |-> disk, saved |-> "none", killed |-> FALSE]
        new == Task(Str(strip(title.s)), priority, Num(nid), FALSE)
        d1 == DictSet(d, new.task)
        sv == save_tasks(d1, disk, Filename, outcome)
    IN IF title.t = "null" \/ (title.t = "int" /\ title.n = 0) \/ (title.t = "str" /\ title.s = <<>>)
       THEN failed("ValueError", "Task title cannot be empty")
       ELSE IF title.t # "str" THEN failed("AttributeError", "")
       ELSE IF strip(title.s) = <<>> THEN failed("ValueError", "Task title cannot be empty")
       ELSE IF priority \notin {"low", "normal", "high"}
       THEN failed("ValueError", "Priority must be: low, normal or high")
       ELSE IF new.exc # "none" THEN failed(new.exc, "")
       ELSE [exc |-> "none", msg |-> "", task |-> new.task, tasks |-> d1, next_id |-> nid + 1,
             disk |-> sv.disk, saved |-> outcome, killed |-> sv.killed]

\* create_task that leaves next_id as it is
create_task_keeps_next_id(d, nid, disk, title, priority, outcome) ==
    LET failed(e, m) == [exc |-> e, msg |-> m, task |-> NoTask, tasks |-> d, next_id |-> nid,
                      disk |-> disk, saved |-> "none", killed |-> FALSE]
        new == Task(Str(strip(title.s)), priority, Num(nid), FALSE)
        d1 == DictSet(d, new.task)
        sv == save_tasks(d1, disk, Filename, outcome)
    IN IF title.t = "null" \/ (title.t = "int" /\ title.n = 0) \/ (title.t = "str" /\ title.s = <<>>)
       THEN failed("ValueError", "Task title cannot be empty")
       ELSE IF title.t # "str" THEN failed("AttributeError", "")
       ELSE IF strip(title.s) = <<>> THEN failed("ValueError", "Task title cannot be empty")
       ELSE IF priority \notin {"low", "normal", "high"}
       THEN failed("ValueError", "Priority must be: low, normal or high")
       ELSE IF new.exc # "none" THEN failed(new.exc, "")
       ELSE [exc |-> "none", msg |-> "", task |-> new.task, tasks |-> d1, next_id |-> nid,
             disk |-> sv.disk, saved |-> outcome, killed |-> sv.killed]

\* create_task that undoes the creation and raises when the save fails
create_task_rolls_back(d, nid, disk, title, priority, outcome) ==
    LET failed(e, m) == [exc |-> e, msg |-> m, task |-> NoTask, tasks |-> d, next_id |-> nid,
                      disk |-> disk, saved |-> "none", killed |-> FALSE]
        new == Task(Str(strip(title.s)), priority, Num(nid), FALSE)
        d1 == DictSet(d, new.task)
        sv == save_tasks(d1, disk, Filename, outcome)
    IN IF title.t = "null" \/ (title.t = "int" /\ title.n = 0) \/ (title.t = "str" /\ title.s = <<>>)
       THEN failed("ValueError", "Task title cannot be empty")
       ELSE IF title.t # "str" THEN failed("AttributeError", "")
       ELSE IF strip(title.s) = <<>> THEN failed("ValueError", "Task title cannot be empty")
       ELSE IF priority \notin {"low", "normal", "high"}
       THEN failed("ValueError", "Priority must be: low, normal or high")
       ELSE IF new.exc # "none" THEN failed(new.exc, "")
       ELSE IF ~sv.ret /\ ~sv.killed
       THEN [exc |-> "OSError", msg |-> "", task |-> NoTask, tasks |-> d, next_id |-> nid,
             disk |-> sv.disk, saved |-> outcome, killed |-> FALSE]
       ELSE [exc |-> "none", msg |-> "", task |-> new.task, tasks |-> d1, next_id |-> nid + 1,
             disk |-> sv.disk, saved |-> outcome, killed |-> sv.killed]

\* create_task that starts the map anew with the task it creates
create_task_resets_map(d, nid, disk, title, priority, outcome) ==
    LET failed(e, m) == [exc |-> e, msg |-> m, task |-> NoTask, tasks |-> d, next_id |-> nid,
                      disk |-> disk, saved |-> "none", killed |-> FALSE]
        new == Task(Str(strip(title.s)), priority, Num(nid), FALSE)
        d1 == <<new.task>>
        sv == save_tasks(d1, disk, Filename, outcome)
    IN IF title.t = "null" \/ (title.t = "int" /\ title.n = 0) \/ (title.t = "str" /\ title.s = <<>>)
       THEN failed("ValueError", "Task title cannot be empty")
       ELSE IF title.t # "str" THEN failed("AttributeError", "")
       ELSE IF strip(title.s) = <<>> THEN failed("ValueError", "Task title cannot be empty")
       ELSE IF priority \notin {"low", "normal", "high"}
       THEN failed("ValueError", "Priority must be: low, normal or high")
       ELSE IF new.exc # "none" THEN failed(new.exc, "")
       ELSE [exc |-> "none", msg |-> "", task |-> new.task, tasks |-> d1, next_id |-> nid + 1,
             disk |-> sv.disk, saved |-> outcome, killed |-> sv.killed]

\* TaskStorage.create_task.  msg is the text of the ValueError raised; saved
\* is the outcome of the save_tasks call, or "none" when the method does not
\* reach it.
create_task(d, nid, disk, title, priority, outcome) ==
    LET failed(e, m) == [exc |-> e, msg |-> m, task |-> NoTask, tasks |-> d, next_id |-> nid,
                      disk |-> disk, saved |-> "none", killed |-> FALSE]
        new == Task(Str(strip(title.s)), priority, Num(nid), FALSE)
        d1 == DictSet(d, new.task)
        sv == save_tasks(d1, disk, Filename, outcome)
    IN IF title.t = "null" \/ (title.t = "int" /\ title.n = 0) \/ (title.t = "str" /\ title.s = <<>>)
       THEN failed("ValueError", "Task title cannot be empty")
       ELSE IF title.t # "str" THEN failed("AttributeError", "")
       ELSE IF strip(title.s) = <<>> THEN failed("ValueError", "Task title cannot be empty")
       ELSE IF priority \notin {"low", "normal", "high"}
       THEN failed("ValueError", "Priority must be: low, normal or high")
       ELSE IF new.exc # "none" THEN failed(new.exc, "")
       ELSE [exc |-> "none", msg |-> "", task |-> new.task, tasks |-> d1, next_id |-> nid + 1,
             disk |-> sv.disk, saved |-> outcome, killed |-> sv.killed]

\* complete_task that reports success for an unknown id
complete_task_unknown_true(d, disk, task_id, outcome) ==
    LET task == get_task(d, Num(task_id))
        d1 == DictSet(d, complete(task))
        sv == save_tasks(d1, disk, Filename, outcome)
    IN IF Num(task_id) \notin Keys(d)
       THEN [ret |-> TRUE, tasks |-> d, disk |-> disk, saved |-> "none", killed |-> FALSE]
       ELSE IF task.is_done
       THEN [ret |-> TRUE, tasks |-> d, disk |-> disk, saved |-> "none", killed |-> FALSE]
       ELSE [ret |-> TRUE, tasks |-> d1, disk |-> sv.disk, saved |-> outcome, killed |-> sv.killed]

\* complete_task that does not save after marking the task done
complete_task_skips_save(d, disk, task_id, outcome) ==
    LET task == get_task(d, Num(task_id))
        d1 == DictSet(d, complete(task))
        sv == save_tasks(d1, disk, Filename, outcome)
    IN IF Num(task_id) \notin Keys(d)
       THEN [ret |-> FALSE, tasks |-> d, disk |-> disk, saved |-> "none", killed |-> FALSE]
       ELSE IF task.is_done
       THEN [ret |-> TRUE, tasks |-> d, disk |-> disk, saved |-> "none", killed |-> FALSE]
       ELSE [ret |-> TRUE, tasks |-> d1, disk |-> disk, saved |-> "none", killed |-> FALSE]

\* complete_task that marks a done task not done again
complete_task_toggles(d, disk, task_id, outcome) ==
    LET task == get_task(d, Num(task_id))
        d1 == DictSet(d, [task EXCEPT !.is_done = ~task.is_done])
        sv == save_tasks(d1, disk, Filename, outcome)
    IN IF Num(task_id) \notin Keys(d)
       THEN [ret |-> FALSE, tasks |-> d, disk |-> disk, saved |-> "none", killed |-> FALSE]
       ELSE [ret |-> TRUE, tasks |-> d1, disk |-> sv.disk, saved |-> outcome, killed |-> sv.killed]

\* TaskStorage.complete_task
complete_task(d, disk, task_id, outcome) ==
    LET task == get_task(d, Num(task_id))
        d1 == DictSet(d, complete(task))
        sv == save_tasks(d1, disk, Filename, outcome)
    IN IF Num(task_id) \notin Keys(d)
       THEN [ret |-> FALSE, tasks |-> d, disk |-> disk, saved |-> "none", killed |-> FALSE]
       ELSE IF task.is_done
       THEN [ret |-> TRUE, tasks |-> d, disk |-> disk, saved |-> "none", killed |-> FALSE]
       ELSE [ret |-> TRUE, tasks |-> d1, disk |-> sv.disk, saved |-> outcome, killed |-> sv.killed]

\* TaskStorage.get_stats
get_stats(d, nid) ==
    LET total == Len(d)
        completed == Cardinality({i \in 1 .. Len(d) : d[i].is_done})
    IN [total_tasks |-> total, completed_tasks |-> completed,
        pending_tasks |-> total - completed, next_id |-> nid, storage_file |-> Filename]

\* ------------------------------------------------------------ HTTP layer
\* A request path is a sequence of one-character strings.
TasksPart == <<"t", "a", "s", "k", "s">>
CompletePart == <<"c", "o", "m", "p", "l", "e", "t", "e">>
TitleKey == <<"t", "i", "t", "l", "e">>

\* str.strip(chars)
RECURSIVE lstrip_chars(_, _)
lstrip_chars(s, chars) ==
    IF s # <<>> /\ Head(s) \in chars THEN lstrip_chars(Tail(s), chars) ELSE s

RECURSIVE rstrip_chars(_, _)
rstrip_chars(s, chars) ==
    IF s # <<>> /\ s[Len(s)] \in chars
    THEN rstrip_chars(SubSeq(s, 1, Len(s) - 1), chars)
    ELSE s

strip_chars(s, chars) == rstrip_chars(lstrip_chars(s, chars), chars)

\* str.split(sep) for a one-character sep: "" splits to [""]
RECURSIVE split(_, _)
split(s, sep) ==
    IF \A i \in 1 .. Len(s) : s[i] # sep THEN <<s>>
    ELSE LET k == CHOOSE i \in 1 .. Len(s) : s[i] = sep /\ \A j \in 1 .. (i - 1) : s[j] # sep
         IN <<SubSeq(s, 1, k - 1)>> \o split(SubSeq(s, k + 1, Len(s)), sep)

\* urlparse(path).path for a path that begins with one "/": what precedes
\* the query string
urlparse_path(path) ==
    IF \A i \in 1 .. Len(path) : path[i] # "?" THEN path
    ELSE SubSeq(path, 1, (CHOOSE i \in 1 .. Len(path) :
                              path[i] = "?" /\ \A j \in 1 .. (i - 1) : path[j] # "?") - 1)

\* TodoRequestHandler._parse_path: the path parts
_parse_path(path) == split(strip_chars(urlparse_path(path), {"/"}), "/")

DigitChars == <<"0", "1", "2", "3", "4", "5", "6", "7", "8", "9">>

DigitValue(c) == (CHOOSE i \in 1 .. 10 : DigitChars[i] = c) - 1

RECURSIVE Decimal(_)
Decimal(s) == IF s = <<>> THEN 0 ELSE 10 * Decimal(SubSeq(s, 1, Len(s) - 1)) + DigitValue(s[Len(s)])

\* int() that takes whatever is not a number for 0
int_lenient(s) ==
    LET signed == s # <<>> /\ Head(s) \in {"+", "-"}
        digits == IF signed THEN Tail(s) ELSE s
    IN IF digits = <<>> \/ \E i \in 1 .. Len(digits) : \A k \in 1 .. 10 : DigitChars[k] # digits[i]
       THEN [exc |-> "none", n |-> 0]
       ELSE [exc |-> "none",
             n |-> IF signed /\ Head(s) = "-" THEN 0 - Decimal(digits) ELSE Decimal(digits)]

\* int(s) of a path part without whitespace or underscores: an optional
\* sign and decimal digits, ValueError otherwise
int(s) ==
    LET signed == s # <<>> /\ Head(s) \in {"+", "-"}
        digits == IF signed THEN Tail(s) ELSE s
    IN IF digits = <<>> \/ \E i \in 1 .. Len(digits) : \A k \in 1 .. 10 : DigitChars[k] # digits[i]
       THEN [exc |-> "ValueError", n |-> 0]
       ELSE [exc |-> "none",
             n |-> IF signed /\ Head(s) = "-" THEN 0 - Decimal(digits) ELSE Decimal(digits)]

\* A request body: none sent, text json.loads rejects, or the value
\* json.loads returns.  A str is a sequence of characters, a list holds
\* strs, and a dict has a subset of the keys title and priority (and
\* possibly others), title with any scalar, priority with a str.
None == [t |-> "None", b |-> FALSE, n |-> 0, s |-> <<>>, items |-> <<>>,
         keys |-> {}, title |-> Null, priority |-> ""]
NoBody == [None EXCEPT !.t = "absent"]
BadJson == [None EXCEPT !.t = "unparsable"]
JsonNull == [None EXCEPT !.t = "null"]
JsonBool(b) == [None EXCEPT !.t = "bool", !.b = b]
JsonInt(n) == [None EXCEPT !.t = "int", !.n = n]
JsonStr(s) == [None EXCEPT !.t = "str", !.s = s]
JsonList(items) == [None EXCEPT !.t = "list", !.items = items]
JsonDict(keys, title, priority) ==
    [None EXCEPT !.t = "dict", !.keys = keys, !.title = title, !.priority = priority]

\* TodoRequestHandler._read_json_body: None without a body, for text that
\* does not parse and for the JSON null
_read_json_body(body) == IF body.t \in {"absent", "unparsable", "null"} THEN None ELSE body

\* bool(data)
truthy(data) ==
    CASE data.t = "None" -> FALSE
      [] data.t = "bool" -> data.b
      [] data.t = "int" -> data.n # 0
      [] data.t = "str" -> data.s # <<>>
      [] data.t = "list" -> data.items # <<>>
      [] data.t = "dict" -> data.keys # {}

\* "title" in data: a key of a dict, an element of a list, a substring of a
\* str, TypeError for a number or a bool
contains_title(data) ==
    CASE data.t \in {"bool", "int", "None"} -> [exc |-> "TypeError", val |-> FALSE]
      [] data.t = "str" ->
           [exc |-> "none",
            val |-> \E i \in 1 .. Len(data.s) :
                       /\ i + Len(TitleKey) - 1 <= Len(data.s)
                       /\ SubSeq(data.s, i, i + Len(TitleKey) - 1) = TitleKey]
      [] data.t = "list" ->
           [exc |-> "none", val |-> \E i \in 1 .. Len(data.items) : data.items[i] = TitleKey]
      [] data.t = "dict" -> [exc |-> "none", val |-> "title" \in data.keys]

\* What _send_response writes: the status code and the body, which is
\* nothing, {"error": message}, a serialized task or an array of them
NoResponse == [code |-> 0, content |-> "none", error |-> "", object |-> NonObj, array |-> <<>>]
Empty(code) == [NoResponse EXCEPT !.code = code, !.content = "empty"]
Error(code, message) == [NoResponse EXCEPT !.code = code, !.content = "error", !.error = message]
Object(code, obj) == [NoResponse EXCEPT !.code = code, !.content = "object", !.object = obj]
ArrayOf(code, objs) == [NoResponse EXCEPT !.code = code, !.content = "array", !.array = objs]

\* TodoRequestHandler.do_GET.  exc is the exception that leaves the method
\* ("none" when it returns), response what it sent.
do_GET(d, path) ==
    LET path_parts == _parse_path(path)
        tasks_data == [i \in 1 .. Len(get_all_tasks(d)) |-> to_dict(get_all_tasks(d)[i])]
    IN IF path_parts = <<TasksPart>>
       THEN [exc |-> "none", response |-> ArrayOf(200, tasks_data), called |-> "get_all_tasks"]
       ELSE [exc |-> "none", response |-> Error(404, "Not found"), called |-> "none"]

\* TodoRequestHandler.do_POST.  called is the store method it reached, ret
\* what complete_task returned.
do_POST(d, nid, disk, path, body, outcome) ==
    LET path_parts == _parse_path(path)
        kept(resp, called) ==
            [exc |-> "none", response |-> resp, called |-> called, ret |-> FALSE,
             task |-> NoTask, tasks |-> d, next_id |-> nid, disk |-> disk,
             saved |-> "none", killed |-> FALSE]
        raised(e) == [kept(NoResponse, "none") EXCEPT !.exc = e]
        data == _read_json_body(body)
        has == contains_title(data)
        priority == IF "priority" \in data.keys THEN data.priority ELSE "normal"
        ct == create_task(d, nid, disk, data.title, priority, outcome)
        task_id == int(path_parts[2])
        done == complete_task(d, disk, task_id.n, outcome)
    IN IF path_parts = <<TasksPart>>
       THEN IF ~truthy(data) THEN kept(Error(400, "Invalid JSON"), "none")
            ELSE IF has.exc # "none" THEN raised(has.exc)
            ELSE IF ~has.val THEN kept(Error(400, "Title is required"), "none")
            ELSE IF data.t # "dict" THEN raised("AttributeError")
            ELSE IF ct.exc = "ValueError" THEN kept(Error(400, ct.msg), "create_task")
            ELSE IF ct.exc # "none" THEN kept(Error(500, "Internal server error"), "create_task")
            ELSE [exc |-> "none",
                  response |-> IF ct.killed THEN NoResponse ELSE Object(201, to_dict(ct.task)),
                  called |-> "create_task", ret |-> FALSE, task |-> ct.task,
                  tasks |-> ct.tasks, next_id |-> ct.next_id, disk |-> ct.disk,
                  saved |-> ct.saved, killed |-> ct.killed]
       ELSE IF Len(path_parts) = 3 /\ path_parts[1] = TasksPart /\ path_parts[3] = CompletePart
       THEN IF task_id.exc = "ValueError" THEN kept(Error(400, "Invalid task ID"), "none")
            ELSE [exc |-> "none",
                  response |-> IF done.killed THEN NoResponse
                               ELSE IF done.ret THEN Empty(200) ELSE Empty(404),
                  called |-> "complete_task", ret |-> done.ret, task |-> NoTask,
                  tasks |-> done.tasks, next_id |-> nid, disk |-> done.disk,
                  saved |-> done.saved, killed |-> done.killed]
       ELSE kept(Error(404, "Not found"), "none")

\* ----------------------------------------------------------------- state
VARIABLES
    tasks,      \* TaskStorage.tasks
    next_id,    \* TaskStorage.next_id
    disk,       \* what the backing file and its temporary file hold
    status,     \* "up": a store is constructed; "down": the process is not running
    last,       \* the last call: its arguments, how it ended, what it returned
    returned,   \* ids create_task has returned on the current store
    faults,     \* I/O failures and kills so far
    history     \* ids create_task has returned to callers since the start, in
                \* every run of the process; whether a save_tasks call has
                \* returned False; whether open() of the existing backing
                \* file has raised an error other than PermissionError

vars == <<tasks, next_id, disk, status, last, returned, faults, history>>

NoHistory == [ids |-> {}, save_failed |-> FALSE, read_failed |-> FALSE]

\* Once a save_tasks call has returned False the history keeps that fact only.
SaveHasFailed == [ids |-> {}, save_failed |-> TRUE, read_failed |-> FALSE]

\* The history after an operation that returned the ids `ids` to its caller
\* and whose save_tasks call returned `saved` ("none" when it made no call).
Remember(h, ids, saved) ==
    IF h.save_failed \/ saved \in SaveReturns \ {"ok", "none"}
    THEN SaveHasFailed
    ELSE [h EXCEPT !.ids = @ \cup ids]

NoStats == [total_tasks |-> 0, completed_tasks |-> 0, pending_tasks |-> 0,
            next_id |-> 0, storage_file |-> ""]

NoCall == [op |-> "", title |-> Null, priority |-> "", id |-> 0, exc |-> "none",
           ok |-> FALSE, task |-> NoTask, list |-> <<>>, stats |-> NoStats,
           saved |-> "none", read |-> "", branch |-> "",
           path |-> <<>>, body |-> NoBody, response |-> NoResponse, called |-> ""]

\* Elements a backing file found at start-up may hold
FileRecords ==
    { Obj(AllKeys, Num(1), Str(<<"a">>), "low", TRUE),
      Obj({"id", "title"}, Num(2), Str(<<" ", "a">>), "", FALSE),
      Obj(AllKeys, Num(0), Str(<<"a">>), "high", FALSE),
      Obj(AllKeys, Num(1), Str(<<"a", "a">>), "normal", FALSE),
      Obj({"title", "priority", "isDone"}, Null, Str(<<"a">>), "low", FALSE),
      Obj({"id", "priority", "isDone"}, Num(2), Null, "low", FALSE),
      Obj(AllKeys, Num(2), Str(<<" ">>), "low", FALSE),
      Obj(AllKeys, Num(2), Str(<<"a">>), "urgent", FALSE),
      Obj(AllKeys, Num(2), Num(5), "low", FALSE),
      Obj(AllKeys, Str(<<"a">>), Str(<<"a">>), "low", FALSE),
      Obj(AllKeys, Num(0 - 1), Str(<<"a">>), "low", FALSE),
      Obj(AllKeys, Float(BigFloat), Str(<<"a">>), "normal", TRUE),
      NonObj }

RECURSIVE RecSeqs(_)
RecSeqs(n) ==
    IF n = 0 THEN {<<>>}
    ELSE LET shorter == RecSeqs(n - 1)
         IN shorter \cup {Append(s, r) : s \in {x \in shorter : Len(x) = n - 1}, r \in FileRecords}

\* Backing files a start-up loads: every content shape, arrays of up to
\* MaxFileRecs elements
LoadFiles == {Missing, Garbage, NonArray} \cup {Array(recs) : recs \in RecSeqs(MaxFileRecs)}

\* Backing files the store is operated on: none, an unparsable one, and one
\* holding a done task, a record with defaults and an untrimmed title, and a
\* record with id 0
InitialFiles ==
    { Missing, Garbage,
      Array(<<Obj(AllKeys, Num(1), Str(<<"a">>), "low", TRUE)>>),
      Array(<<Obj({"id", "title"}, Num(2), Str(<<" ", "a">>), "", FALSE),
              Obj(AllKeys, Num(0), Str(<<"a">>), "high", FALSE)>>) }

FreshDisk(f) == [p \in Paths |-> IF p = Filename THEN f ELSE Missing]

\* TaskStorage.__init__ on the files of disk d0: the new values of the
\* store, of the process status and of the call record
TaskStorage(d0, read) ==
    LET ld == load_tasks(d0, Filename, read)
    IN [tasks |-> ld.tasks, next_id |-> ld.next_id,
        status |-> IF ld.exc = "none" THEN "up" ELSE "down",
        last |-> [NoCall EXCEPT !.op = "TaskStorage", !.exc = ld.exc, !.read = read,
                                !.branch = ld.branch]]

Init ==
    \E f \in InitialFiles, read \in ReadOutcomes :
        \E st \in {TaskStorage(FreshDisk(f), read)} :
            /\ tasks = st.tasks
            /\ next_id = st.next_id
            /\ disk = FreshDisk(f)
            /\ status = st.status
            /\ last = st.last
            /\ returned = {}
            /\ faults = 0
            /\ history = NoHistory

\* The process is started again: a fresh TaskStorage on the same file
Restart(read) ==
    /\ (read # "ok" /\ disk[Filename].kind # "missing") => faults < MaxFaults
    /\ faults' = (IF read # "ok" /\ disk[Filename].kind # "missing" THEN faults + 1 ELSE faults)
    /\ \E st \in {TaskStorage(disk, read)} :
        /\ tasks' = st.tasks
        /\ next_id' = st.next_id
        /\ status' = st.status
        /\ last' = st.last
        /\ returned' = {}
        /\ UNCHANGED disk
    /\ history' = (IF history.save_failed THEN history
                   ELSE [history EXCEPT
                            !.read_failed = @ \/ (read = "OSError" /\ disk[Filename].kind # "missing")])

\* The store is gone with the process that was ended inside save_tasks
Killed(call, d) ==
    /\ tasks' = <<>>
    /\ next_id' = 1
    /\ disk' = d
    /\ status' = "down"
    /\ last' = [call EXCEPT !.exc = "killed"]
    /\ returned' = {}
    /\ UNCHANGED history

CreateTask(title, priority, outcome) ==
    /\ status = "up"
    /\ next_id <= MaxNextId
    /\ outcome # "ok" => faults < MaxFaults
    /\ \E r \in {create_task(tasks, next_id, disk, Str(title), priority, outcome)} :
          /\ faults' = (IF r.saved \in {"none", "ok"} THEN faults ELSE faults + 1)
          /\ IF r.killed
             THEN Killed([NoCall EXCEPT !.op = "create_task", !.title = Str(title),
                                        !.priority = priority, !.saved = r.saved], r.disk)
             ELSE /\ tasks' = r.tasks
                  /\ next_id' = r.next_id
                  /\ disk' = r.disk
                  /\ last' = [NoCall EXCEPT !.op = "create_task", !.title = Str(title),
                                            !.priority = priority, !.exc = r.exc,
                                            !.task = r.task, !.saved = r.saved]
                  /\ returned' = (IF r.exc = "none" THEN returned \cup {r.task.id.n}
                                  ELSE returned)
                  /\ history' = Remember(history,
                                         IF r.exc = "none" THEN {r.task.id.n} ELSE {}, r.saved)
                  /\ UNCHANGED status

CompleteTask(task_id, outcome) ==
    /\ status = "up"
    /\ outcome # "ok" => faults < MaxFaults
    /\ \E r \in {complete_task(tasks, disk, task_id, outcome)} :
          /\ faults' = (IF r.saved \in {"none", "ok"} THEN faults ELSE faults + 1)
          /\ IF r.killed
             THEN Killed([NoCall EXCEPT !.op = "complete_task", !.id = task_id,
                                        !.saved = r.saved], r.disk)
             ELSE /\ tasks' = r.tasks
                  /\ disk' = r.disk
                  /\ last' = [NoCall EXCEPT !.op = "complete_task", !.id = task_id,
                                            !.ok = r.ret, !.saved = r.saved]
                  /\ history' = Remember(history, {}, r.saved)
                  /\ UNCHANGED <<next_id, status, returned>>

GetTask(task_id) ==
    /\ status = "up"
    /\ last' = [NoCall EXCEPT !.op = "get_task", !.id = task_id,
                              !.task = get_task(tasks, Num(task_id))]
    /\ UNCHANGED <<tasks, next_id, disk, status, returned, faults, history>>

GetAllTasks ==
    /\ status = "up"
    /\ last' = [NoCall EXCEPT !.op = "get_all_tasks", !.list = get_all_tasks(tasks)]
    /\ UNCHANGED <<tasks, next_id, disk, status, returned, faults, history>>

GetStats ==
    /\ status = "up"
    /\ last' = [NoCall EXCEPT !.op = "get_stats", !.stats = get_stats(tasks, next_id)]
    /\ UNCHANGED <<tasks, next_id, disk, status, returned, faults, history>>

\* A caller constructs a Task on its own: Task(title, priority)
NewTask(title, priority) ==
    /\ status = "up"
    /\ \E r \in {Task(Str(title), priority, Null, FALSE)} :
          last' = [NoCall EXCEPT !.op = "Task", !.title = Str(title), !.priority = priority,
                                 !.exc = r.exc, !.task = r.task]
    /\ UNCHANGED <<tasks, next_id, disk, status, returned, faults, history>>

Next ==
    \/ \E read \in ReadOutcomes : Restart(read)
    \/ \E title \in Titles, priority \in Priorities, outcome \in SaveOutcomes :
           CreateTask(title, priority, outcome)
    \/ \E task_id \in TaskIds, outcome \in SaveOutcomes : CompleteTask(task_id, outcome)
    \/ \E task_id \in TaskIds : GetTask(task_id)
    \/ GetAllTasks
    \/ GetStats
    \/ \E title \in Titles, priority \in Priorities : NewTask(title, priority)

Spec == Init /\ [][Next]_vars

\* Paths requests come with: the two routes, the complete route with id
\* parts that are and are not numbers, and paths of neither route
BuyMilk == <<"B", "u", "y", " ", "m", "i", "l", "k">>

IdParts == { <<"1">>, <<"2">>, <<"9", "9">>, <<"+", "1">>, <<"-", "1">>,
             <<"x">>, <<"1", ".", "5">>, <<>> }

CompleteRoute(part) == <<"/">> \o TasksPart \o <<"/">> \o part \o <<"/">> \o CompletePart

RequestPaths ==
    { <<"/">> \o TasksPart,
      <<"/">> \o TasksPart \o <<"/", "?", "x">>,
      <<"/">>,
      <<"/">> \o TasksPart \o <<"/", "1">>,
      <<"/">> \o CompletePart \o <<"/", "1", "/">> \o TasksPart }
    \cup {CompleteRoute(part) : part \in IdParts}

\* Bodies requests come with: none, text that is not JSON, every kind of
\* JSON value, empty and not, and objects with and without the two keys
Bodies ==
    { NoBody, BadJson, JsonNull,
      JsonBool(FALSE), JsonBool(TRUE), JsonInt(0), JsonInt(5),
      JsonStr(<<>>), JsonStr(<<"a">>), JsonStr(<<"s">> \o TitleKey),
      JsonList(<<>>), JsonList(<< <<"a">> >>), JsonList(<< TitleKey >>),
      JsonDict({}, Null, ""),
      JsonDict({"priority"}, Null, "high"),
      JsonDict({"title"}, Str(BuyMilk), ""),
      JsonDict({"title", "priority"}, Str(<<" ">> \o BuyMilk \o <<" ">>), "normal"),
      JsonDict({"title", "priority"}, Str(BuyMilk), "urgent"),
      JsonDict({"title"}, Str(<<" ">>), ""),
      JsonDict({"title", "other"}, Str(<<>>), ""),
      JsonDict({"title"}, Null, ""),
      JsonDict({"title"}, Num(0), ""),
      JsonDict({"title"}, Num(5), "") }

\* The server handles one POST request.  outcome is how the save_tasks call
\* of the request ends; a request that does not save has one outcome.
DoPost(path, body, outcome) ==
    /\ status = "up"
    /\ _parse_path(path) = <<TasksPart>> => next_id <= MaxNextId
    /\ outcome # "ok" => faults < MaxFaults
    /\ \E r \in {do_POST(tasks, next_id, disk, path, body, outcome)} :
          /\ r.saved = "none" => outcome = "ok"
          /\ faults' = (IF r.saved \in {"none", "ok"} THEN faults ELSE faults + 1)
          /\ IF r.killed
             THEN Killed([NoCall EXCEPT !.op = "do_POST", !.path = path, !.body = body,
                                        !.called = r.called, !.saved = r.saved], r.disk)
             ELSE /\ tasks' = r.tasks
                  /\ next_id' = r.next_id
                  /\ disk' = r.disk
                  /\ last' = [NoCall EXCEPT !.op = "do_POST", !.path = path, !.body = body,
                                            !.exc = r.exc, !.response = r.response,
                                            !.called = r.called, !.ok = r.ret,
                                            !.task = r.task, !.saved = r.saved]
                  /\ returned' = (IF r.response.code = 201 THEN returned \cup {r.task.id.n}
                                  ELSE returned)
                  /\ history' = Remember(history,
                                         IF r.response.code = 201 THEN {r.task.id.n} ELSE {},
                                         r.saved)
                  /\ UNCHANGED status

\* The server handles one GET request
DoGet(path) ==
    /\ status = "up"
    /\ \E r \in {do_GET(tasks, path)} :
          last' = [NoCall EXCEPT !.op = "do_GET", !.path = path, !.exc = r.exc,
                                 !.response = r.response, !.called = r.called]
    /\ UNCHANGED <<tasks, next_id, disk, status, returned, faults, history>>

\* POST requests: every body on the create route, no body on the others
PostRequests ==
    {[path |-> <<"/">> \o TasksPart, body |-> body] : body \in Bodies}
    \cup {[path |-> path, body |-> NoBody] : path \in RequestPaths}

NextHttp ==
    \/ \E request \in PostRequests, outcome \in SaveOutcomes :
           DoPost(request.path, request.body, outcome)
    \/ \E path \in RequestPaths : DoGet(path)

\* One run of the server: the store the handler class constructs and the
\* requests served until the process ends
SpecHttp == Init /\ [][NextHttp]_vars

\* Start-up alone, on every backing file of LoadFiles
InitLoad ==
    \E f \in LoadFiles, read \in ReadOutcomes :
        \E st \in {TaskStorage(FreshDisk(f), read)} :
            /\ tasks = st.tasks
            /\ next_id = st.next_id
            /\ disk = FreshDisk(f)
            /\ status = st.status
            /\ last = st.last
            /\ returned = {}
            /\ faults = 0
            /\ history = NoHistory

NextLoad == \E read \in ReadOutcomes : Restart(read)

SpecLoad == InitLoad /\ [][NextLoad]_vars

\* ---------------------------------------------------------------- claims
\* What the claims say of a call, stated apart from the operators above.

\* r is s without its leading and trailing whitespace
IsTrimOf(r, s) ==
    \E i \in 1 .. Len(s), j \in 1 .. Len(s) :
        /\ i <= j
        /\ r = SubSeq(s, i, j)
        /\ s[i] # " " /\ s[j] # " "
        /\ \A k \in 1 .. Len(s) : (k < i \/ k > j) => s[k] = " "

IsBlank(s) == \A k \in 1 .. Len(s) : s[k] = " "

IsValidPriority(p) == p = "low" \/ p = "normal" \/ p = "high"

SaveFailed == {"PermissionError", "write error", "replace error"}

HasKey(d, k) == \E i \in 1 .. Len(d) : d[i].id = k

TaskAt(d, k) == d[CHOOSE i \in 1 .. Len(d) : d[i].id = k]

C2_SaveIsAtomic ==
    [][ /\ disk'[Filename] # disk[Filename]
           => /\ last'.saved = "ok"
              /\ disk'[Filename].kind = "array"
              /\ Len(disk'[Filename].recs) = Len(tasks')
              /\ \A i \in 1 .. Len(tasks') :
                    /\ disk'[Filename].recs[i].obj
                    /\ disk'[Filename].recs[i].keys = {"id", "title", "priority", "isDone"}
                    /\ disk'[Filename].recs[i].id = tasks'[i].id
                    /\ disk'[Filename].recs[i].title.s = tasks'[i].title
                    /\ disk'[Filename].recs[i].priority = tasks'[i].priority
                    /\ disk'[Filename].recs[i].isDone = tasks'[i].is_done
        /\ (last'.saved \in SaveFailed \/ last'.exc = "killed")
           => disk'[Filename] = disk[Filename]
        /\ disk'[Filename].kind # "partial"
      ]_vars

\* C2 witness: the process was ended between the write of the temporary file
\* and the replace; the temporary file holds the new dump, the backing file
\* the old one
C2_Witness ==
    /\ last.exc = "killed"
    /\ last.saved = "killed before replace"
    /\ disk[Filename].kind = "array"
    /\ disk[Filename \o ".tmp"].kind = "array"
    /\ disk[Filename \o ".tmp"] # disk[Filename]

\* C3: a fresh store constructed on the file right after a successful
\* save_tasks holds the same ids with the same title, priority and isDone,
\* and its next_id is greater than every loaded id.
C3_RoundTrip ==
    [][ (/\ status = "up"
         /\ last.saved = "ok"
         /\ last'.op = "TaskStorage"
         /\ last'.read = "ok")
        => /\ status' = "up"
           /\ \A k \in {tasks[i].id : i \in 1 .. Len(tasks)} : HasKey(tasks', k)
           /\ \A k \in {tasks'[i].id : i \in 1 .. Len(tasks')} : HasKey(tasks, k)
           /\ \A i \in 1 .. Len(tasks) :
                 /\ TaskAt(tasks', tasks[i].id).title = tasks[i].title
                 /\ TaskAt(tasks', tasks[i].id).priority = tasks[i].priority
                 /\ TaskAt(tasks', tasks[i].id).is_done = tasks[i].is_done
           /\ \A i \in 1 .. Len(tasks') : tasks'[i].id.n < next_id'
      ]_vars

\* C3 witness: a store loaded from a dump of two or more tasks, done and not
\* done, one of them created by create_task
C3_Witness ==
    /\ last.op = "TaskStorage"
    /\ last.read = "ok"
    /\ status = "up"
    /\ Len(tasks) >= 2
    /\ \E i \in 1 .. Len(tasks) : tasks[i].is_done
    /\ \E i \in 1 .. Len(tasks) : ~tasks[i].is_done /\ tasks[i].priority = "high"
    /\ disk[Filename].kind = "array"
    /\ Len(disk[Filename].recs) = Len(tasks)
    /\ \A i \in 1 .. Len(tasks) : disk[Filename].recs[i].keys = {"id", "title", "priority", "isDone"}

\* C4: when save_tasks returns false, create_task still adds the task, keeps
\* next_id incremented and returns the Task, and complete_task still leaves
\* the task done and returns true: what the caller gets is what it gets when
\* the save succeeds.
C4_SaveFailureKeepsMutation ==
    [][ /\ (last'.op = "create_task" /\ last'.saved \in SaveFailed)
           => /\ last'.exc = "none"
              /\ status' = "up"
              /\ next_id' = next_id + 1
              /\ last'.task.id = Num(next_id)
              /\ IsTrimOf(last'.task.title, last'.title.s)
              /\ last'.task.priority = last'.priority
              /\ last'.task.is_done = FALSE
              /\ tasks' = Append(tasks, last'.task)
              /\ last'.task = create_task(tasks, next_id, disk, last'.title, last'.priority, "ok").task
        /\ (last'.op = "complete_task" /\ last'.saved \in SaveFailed)
           => /\ last'.exc = "none"
              /\ status' = "up"
              /\ last'.ok = TRUE
              /\ HasKey(tasks', Num(last'.id))
              /\ TaskAt(tasks', Num(last'.id)).is_done = TRUE
              /\ tasks' = complete_task(tasks, disk, last'.id, "ok").tasks
              /\ next_id' = next_id
      ]_vars

\* C4 witness: create_task returned its Task although os.replace failed
C4_Witness ==
    /\ last.op = "create_task"
    /\ last.saved = "replace error"
    /\ last.exc = "none"
    /\ HasKey(tasks, last.task.id)
    /\ disk[Filename] # JsonDump(tasks)

\* C5: with an empty or whitespace-only title, whatever the priority,
\* create_task and the Task constructor raise the validation error, and
\* create_task leaves the map, next_id and the backing file as they were and
\* does not call save_tasks.
C5_BlankTitleRejected ==
    [][ (/\ last'.op \in {"create_task", "Task"}
         /\ last'.title.t = "str"
         /\ IsBlank(last'.title.s))
        => /\ last'.exc = "ValueError"
           /\ last'.task = NoTask
           /\ last'.saved = "none"
           /\ tasks' = tasks
           /\ next_id' = next_id
           /\ disk' = disk
           /\ status' = status
      ]_vars

\* C5 witness: create_task with a whitespace-only title was refused on a
\* store that holds tasks and could still create one
C5_Witness ==
    /\ last.op = "create_task"
    /\ last.title = Str(<<" ">>)
    /\ last.exc = "ValueError"
    /\ Len(tasks) >= 1
    /\ next_id <= MaxNextId

\* C6: with a priority outside low, normal, high and a valid title,
\* create_task and the Task constructor raise the validation error, and
\* create_task leaves the map, next_id and the backing file as they were.
C6_InvalidPriorityRejected ==
    [][ (/\ last'.op \in {"create_task", "Task"}
         /\ last'.title.t = "str"
         /\ ~IsBlank(last'.title.s)
         /\ ~IsValidPriority(last'.priority))
        => /\ last'.exc = "ValueError"
           /\ last'.task = NoTask
           /\ last'.saved = "none"
           /\ tasks' = tasks
           /\ next_id' = next_id
           /\ disk' = disk
           /\ status' = status
      ]_vars

\* C6 witness: the constructor refused a valid title with priority "urgent"
C6_Witness ==
    /\ last.op = "Task"
    /\ last.title = Str(<<"a">>)
    /\ last.priority = "urgent"
    /\ last.exc = "ValueError"
    /\ Len(tasks) >= 1

\* C7: complete_task with an id that is not in the map returns false, does
\* not raise, and leaves every task, next_id and the backing file unchanged.
C7_CompleteUnknownId ==
    [][ (last'.op = "complete_task" /\ ~HasKey(tasks, Num(last'.id)))
        => /\ last'.exc = "none"
           /\ last'.ok = FALSE
           /\ last'.saved = "none"
           /\ tasks' = tasks
           /\ next_id' = next_id
           /\ disk' = disk
           /\ status' = status
      ]_vars

\* C7 witness: complete_task returned false on a store that holds tasks
\* whose backing file is behind the map
C7_Witness ==
    /\ last.op = "complete_task"
    /\ last.exc = "none"
    /\ ~last.ok
    /\ ~HasKey(tasks, Num(last.id))
    /\ Len(tasks) >= 1
    /\ disk[Filename] # JsonDump(tasks)

\* C8: complete_task with an id that is in the map returns true, done
\* before or not, and leaves the task done; on a task that is already done,
\* as in every repeated call, it changes nothing in the store or the file.
C8_CompleteKnownId ==
    [][ (/\ last'.op = "complete_task"
         /\ HasKey(tasks, Num(last'.id))
         /\ last'.exc # "killed")
        => /\ last'.exc = "none"
           /\ last'.ok = TRUE
           /\ HasKey(tasks', Num(last'.id))
           /\ TaskAt(tasks', Num(last'.id)).is_done = TRUE
           /\ Len(tasks') = Len(tasks)
           /\ \A i \in 1 .. Len(tasks) :
                 /\ tasks'[i].id = tasks[i].id
                 /\ tasks'[i].title = tasks[i].title
                 /\ tasks'[i].priority = tasks[i].priority
                 /\ tasks[i].id # Num(last'.id) => tasks'[i].is_done = tasks[i].is_done
           /\ next_id' = next_id
           /\ TaskAt(tasks, Num(last'.id)).is_done
              => (tasks' = tasks /\ disk' = disk /\ last'.saved = "none")
      ]_vars

\* C8 witness: a repeated complete_task on a done task returned true while
\* the backing file, whose save had failed, still shows the task not done
C8_Witness ==
    /\ last.op = "complete_task"
    /\ last.ok
    /\ last.saved = "none"
    /\ HasKey(tasks, Num(last.id))
    /\ TaskAt(tasks, Num(last.id)).is_done
    /\ faults >= 1
    /\ disk[Filename] # JsonDump(tasks)

\* Records of a backing file, as the claims sort them: a record a Task can
\* be built from; a record refused for a missing required key, an empty or
\* blank title or a priority outside the three; and any other record.
ValidRecord(r) ==
    /\ r.obj
    /\ "id" \in r.keys /\ "title" \in r.keys
    /\ r.title.t = "str" /\ ~IsBlank(r.title.s)
    /\ "priority" \in r.keys => IsValidPriority(r.priority)
    /\ r.id.t \in {"int", "float"}

RefusedRecord(r) ==
    /\ r.obj
    /\ \/ "id" \notin r.keys
       \/ "title" \notin r.keys
       \/ r.title.t = "null"
       \/ r.title.t = "int" /\ r.title.n = 0
       \/ r.title.t = "str" /\ IsBlank(r.title.s)
       \/ r.title.t = "str" /\ "priority" \in r.keys /\ ~IsValidPriority(r.priority)

UnusableRecord(r) == ~ValidRecord(r) /\ ~RefusedRecord(r)

\* C9: constructing a store raises exactly when reading an existing backing
\* file fails with a permission error; with no file, with a file that does
\* not parse, or with any other failure while reading or loading, it does not
\* raise and the store is empty with next_id = 1, also when records had been
\* loaded before the failure.
C9_LoadRaisesOnlyOnPermission ==
    last.op = "TaskStorage" =>
        LET f == disk[Filename]
            denied == f.kind # "missing" /\ last.read = "PermissionError"
            fallback ==
                /\ ~denied
                /\ \/ f.kind = "missing"
                   \/ f.kind \in {"garbage", "partial"}
                   \/ last.read = "OSError"
                   \/ f.kind = "nonarray"
                   \/ f.kind = "array" /\ \E i \in 1 .. Len(f.recs) : UnusableRecord(f.recs[i])
        IN /\ (last.exc # "none") <=> denied
           /\ (status = "down") <=> denied
           /\ denied => last.exc = "PermissionError"
           /\ fallback => (tasks = <<>> /\ next_id = 1)

\* C9 witness: the second record of the file made the load fail after the
\* first one had been loaded, and the store came up empty
C9_Witness ==
    /\ last.op = "TaskStorage"
    /\ last.read = "ok"
    /\ status = "up"
    /\ disk[Filename].kind = "array"
    /\ Len(disk[Filename].recs) = 2
    /\ ValidRecord(disk[Filename].recs[1])
    /\ UnusableRecord(disk[Filename].recs[2])
    /\ tasks = <<>>
    /\ next_id = 1

\* C10: when the backing file is a JSON array, every record a Task cannot be
\* built from is skipped on its own and every valid record of the file is in
\* the map after the load.
C10_EveryValidRecordLoaded ==
    (/\ last.op = "TaskStorage"
     /\ last.read = "ok"
     /\ disk[Filename].kind = "array")
    => \A i \in 1 .. Len(disk[Filename].recs) :
          ValidRecord(disk[Filename].recs[i]) => HasKey(tasks, disk[Filename].recs[i].id)

\* What the claims say of a request, stated apart from the handler above.
CreatePath == <<"/", "t", "a", "s", "k", "s">>

\* The id parts that are integers, with the integer each one writes
Numerals ==
    { [part |-> <<"1">>, n |-> 1], [part |-> <<"2">>, n |-> 2],
      [part |-> <<"9", "9">>, n |-> 99], [part |-> <<"+", "1">>, n |-> 1],
      [part |-> <<"-", "1">>, n |-> 0 - 1] }

IsNumeral(part) == \E m \in Numerals : m.part = part

IdOf(part) == (CHOOSE m \in Numerals : m.part = part).n

IsCompletePath(path) == \E part \in IdParts : path = CompleteRoute(part)

IdPartOf(path) == CHOOSE part \in IdParts : path = CompleteRoute(part)

IsErrorBody(resp) == resp.content = "error" /\ resp.error # ""

\* C11: POST /tasks responds 400 when the body is absent or is not JSON, 400
\* when the parsed body has no title key, 400 with the validation message
\* when create_task refuses the title or the priority, 201 with the
\* serialized created task when it succeeds and 500 on any other failure;
\* whenever the response is not 201 the map, next_id and the backing file
\* are as before.
C11_PostTasksResponses ==
    [][ (last'.op = "do_POST" /\ last'.path = CreatePath /\ last'.exc # "killed")
        => LET b == last'.body
               resp == last'.response
               parsed == b.t \notin {"absent", "unparsable"}
               hasTitle == b.t = "dict" /\ "title" \in b.keys
               prio == IF "priority" \in b.keys THEN b.priority ELSE "normal"
               blank == \/ b.title.t = "null"
                        \/ b.title.t = "int" /\ b.title.n = 0
                        \/ b.title.t = "str" /\ IsBlank(b.title.s)
               named == b.title.t = "str" /\ ~IsBlank(b.title.s)
           IN /\ last'.exc = "none"
              /\ ~parsed => (resp.code = 400 /\ IsErrorBody(resp))
              /\ (parsed /\ ~hasTitle) => (resp.code = 400 /\ IsErrorBody(resp))
              /\ (hasTitle /\ blank)
                 => (resp.code = 400 /\ resp = Error(400, "Task title cannot be empty"))
              /\ (hasTitle /\ named /\ ~IsValidPriority(prio))
                 => (resp.code = 400 /\ resp = Error(400, "Priority must be: low, normal or high"))
              /\ (hasTitle /\ named /\ IsValidPriority(prio))
                 => /\ resp.code = 201
                    /\ resp.content = "object"
                    /\ resp.object.keys = {"id", "title", "priority", "isDone"}
                    /\ resp.object.id = Num(next_id)
                    /\ IsTrimOf(resp.object.title.s, b.title.s)
                    /\ resp.object.priority = prio
                    /\ resp.object.isDone = FALSE
                    /\ HasKey(tasks', Num(next_id))
                    /\ TaskAt(tasks', Num(next_id)).title = resp.object.title.s
              /\ (hasTitle /\ ~blank /\ ~named) => (resp.code = 500 /\ IsErrorBody(resp))
              /\ resp.code # 201 => (tasks' = tasks /\ next_id' = next_id /\ disk' = disk)
      ]_vars

\* C12: POST /tasks/{id}/complete responds 400, without calling the store,
\* when {id} is not an integer; otherwise it calls complete_task(id) and
\* responds 200 with no body exactly when that returns true, which is when
\* the task exists, done before or not, and 404 with no body exactly when it
\* returns false, which is when the task does not exist.
C12_CompleteRouteResponses ==
    [][ (last'.op = "do_POST" /\ IsCompletePath(last'.path) /\ last'.exc # "killed")
        => LET part == IdPartOf(last'.path)
               resp == last'.response
           IN /\ last'.exc = "none"
              /\ ~IsNumeral(part)
                 => /\ resp.code = 400
                    /\ IsErrorBody(resp)
                    /\ last'.called = "none"
                    /\ last'.saved = "none"
                    /\ tasks' = tasks /\ next_id' = next_id /\ disk' = disk
              /\ IsNumeral(part)
                 => /\ last'.called = "complete_task"
                    /\ resp.code \in {200, 404}
                    /\ resp.content = "empty"
                    /\ (resp.code = 200) <=> last'.ok
                    /\ (resp.code = 200) <=> HasKey(tasks, Num(IdOf(part)))
                    /\ (resp.code = 404) <=> ~HasKey(tasks, Num(IdOf(part)))
                    /\ resp.code = 200 => TaskAt(tasks', Num(IdOf(part))).is_done
                    /\ resp.code = 404 => (tasks' = tasks /\ disk' = disk)
                    /\ next_id' = next_id
      ]_vars

\* C12 witness: the route answered 200 for a task that was done already
C12_Witness ==
    /\ last.op = "do_POST"
    /\ last.path = CompleteRoute(<<"1">>)
    /\ last.response = Empty(200)
    /\ last.saved = "none"
    /\ last.ok
    /\ HasKey(tasks, Num(1))
    /\ TaskAt(tasks, Num(1)).is_done

\* The tasks of the end-to-end trace
BoughtMilk(done) == [id |-> Num(1), title |-> BuyMilk, priority |-> "normal", is_done |-> done]

\* C13: on a store that starts empty, POST /tasks {"title": "Buy milk"}
\* returns 201 with id 1, that title, priority normal and isDone false; then
\* POST /tasks/1/complete returns 200; then GET /tasks returns 200 with an
\* array holding the task with isDone true; then POST /tasks/99/complete
\* returns 404; then POST /tasks with the body {} returns 400 with an error
\* body saying that the title is missing.  Each step is stated on the store
\* the steps before it leave.
C13_EndToEndTrace ==
    [][ /\ (/\ tasks = <<>> /\ next_id = 1
            /\ last'.op = "do_POST" /\ last'.path = CreatePath
            /\ last'.body = JsonDict({"title"}, Str(BuyMilk), "")
            /\ last'.exc # "killed")
           => /\ last'.response.code = 201
              /\ last'.response.content = "object"
              /\ last'.response.object.id = Num(1)
              /\ last'.response.object.title = Str(BuyMilk)
              /\ last'.response.object.priority = "normal"
              /\ last'.response.object.isDone = FALSE
              /\ tasks' = <<BoughtMilk(FALSE)>> /\ next_id' = 2
        /\ (/\ tasks = <<BoughtMilk(FALSE)>> /\ next_id = 2
            /\ last'.op = "do_POST" /\ last'.path = CompleteRoute(<<"1">>)
            /\ last'.exc # "killed")
           => /\ last'.response.code = 200
              /\ tasks' = <<BoughtMilk(TRUE)>> /\ next_id' = 2
        /\ (/\ tasks = <<BoughtMilk(TRUE)>> /\ next_id = 2
            /\ last'.op = "do_GET" /\ last'.path = CreatePath)
           => /\ last'.response.code = 200
              /\ last'.response.content = "array"
              /\ \E i \in 1 .. Len(last'.response.array) :
                    /\ last'.response.array[i].id = Num(1)
                    /\ last'.response.array[i].title = Str(BuyMilk)
                    /\ last'.response.array[i].priority = "normal"
                    /\ last'.response.array[i].isDone = TRUE
              /\ tasks' = tasks /\ next_id' = next_id
        /\ (/\ tasks = <<BoughtMilk(TRUE)>> /\ next_id = 2
            /\ last'.op = "do_POST" /\ last'.path = CompleteRoute(<<"9", "9">>))
           => /\ last'.response.code = 404
              /\ tasks' = tasks /\ next_id' = next_id
        /\ (/\ tasks = <<BoughtMilk(TRUE)>> /\ next_id = 2
            /\ last'.op = "do_POST" /\ last'.path = CreatePath
            /\ last'.body = JsonDict({}, Null, ""))
           => /\ last'.response.code = 400
              /\ last'.response.content = "error"
              /\ last'.response.error \in {"Title is required", "Task title cannot be empty"}
      ]_vars

\* C14: every GET or POST request, whatever its path and whatever JSON value
\* its body is, gets a response, and a response with a 4xx or 5xx status has
\* a body {"error": message}, except the 404 without a body of the complete
\* route.
C14_AlwaysAStructuredResponse ==
    [][ (last'.op \in {"do_GET", "do_POST"} /\ last'.exc # "killed")
        => /\ last'.exc = "none"
           /\ last'.response.code # 0
           /\ last'.response.code >= 400
              => \/ IsErrorBody(last'.response)
                 \/ /\ last'.op = "do_POST"
                    /\ IsCompletePath(last'.path)
                    /\ last'.response = Empty(404)
      ]_vars

\* C15: in every state of a store, after construction from any backing file
\* and after any calls, next_id is greater than the id of every task in the
\* map.
C15_NextIdAboveEveryId ==
    status = "up" => \A i \in 1 .. Len(tasks) : tasks[i].id.n < next_id

\* The greatest of a non-empty set of numbers
MaxOf(S) == CHOOSE x \in S : \A y \in S : y <= x

\* C16: after a load that does not fall back to the empty state, next_id is
\* the greatest id of the loaded tasks plus 1, or 1 if no task was loaded.
C16_NextIdIsMaxPlusOne ==
    (last.op = "TaskStorage" /\ last.branch = "loaded")
    => next_id = (IF tasks = <<>> THEN 1
                  ELSE plus_one(MaxOf({tasks[i].id.n : i \in 1 .. Len(tasks)})))

\* C17: the backing file changes only through save_tasks, which runs after
\* every mutation: when create_task, or complete_task on a task not yet
\* done, returns and its save succeeded, the backing file holds every task of
\* the map as it is now, those of earlier failed saves included; get_task,
\* get_all_tasks, get_stats, a create_task that fails validation and a
\* complete_task on an unknown or done id leave the backing file alone.
C17_SaveAfterEveryMutation ==
    [][ /\ (last'.op \in {"create_task", "complete_task"} /\ tasks' # tasks /\ status' = "up")
           => last'.saved # "none"
        /\ (/\ last'.op = "create_task"
            /\ last'.title.t = "str" /\ ~IsBlank(last'.title.s)
            /\ IsValidPriority(last'.priority))
           => last'.saved # "none"
        /\ (/\ last'.op = "complete_task"
            /\ HasKey(tasks, Num(last'.id))
            /\ ~TaskAt(tasks, Num(last'.id)).is_done)
           => last'.saved # "none"
        /\ (last'.op \in {"create_task", "complete_task"} /\ last'.saved = "ok")
           => /\ disk'[Filename].kind = "array"
              /\ Len(disk'[Filename].recs) = Len(tasks')
              /\ \A i \in 1 .. Len(tasks') :
                    \E j \in 1 .. Len(disk'[Filename].recs) :
                       /\ disk'[Filename].recs[j].obj
                       /\ disk'[Filename].recs[j].keys = {"id", "title", "priority", "isDone"}
                       /\ disk'[Filename].recs[j].id = tasks'[i].id
                       /\ disk'[Filename].recs[j].title = Str(tasks'[i].title)
                       /\ disk'[Filename].recs[j].priority = tasks'[i].priority
                       /\ disk'[Filename].recs[j].isDone = tasks'[i].is_done
        /\ last'.op \in {"get_task", "get_all_tasks", "get_stats", "Task"}
           => (disk' = disk /\ tasks' = tasks /\ next_id' = next_id)
        /\ (last'.op = "create_task" /\ last'.exc = "ValueError")
           => (disk' = disk /\ last'.saved = "none")
        /\ (/\ last'.op = "complete_task"
            /\ \/ ~HasKey(tasks, Num(last'.id))
               \/ TaskAt(tasks, Num(last'.id)).is_done)
           => (disk' = disk /\ last'.saved = "none")
      ]_vars

\* C17 witness: a save succeeded after an earlier one had failed, and the
\* backing file holds the task of the failed save as well
C17_Witness ==
    /\ last.op \in {"create_task", "complete_task"}
    /\ last.saved = "ok"
    /\ faults >= 1
    /\ Len(tasks) >= 2
    /\ Cardinality(returned) >= 1
    /\ disk[Filename] = JsonDump(tasks)

\* C18: every task in the store, in every state, also after loading any
\* backing file, has a positive integer id, a title that is not empty and
\* has no whitespace at either end, a priority among low, normal and high,
\* and a boolean isDone.
C18_EveryTaskWellFormed ==
    \A i \in 1 .. Len(tasks) :
        /\ tasks[i].id.t = "int" /\ tasks[i].id.n >= 1
        /\ tasks[i].title # <<>>
        /\ Head(tasks[i].title) # " " /\ tasks[i].title[Len(tasks[i].title)] # " "
        /\ IsValidPriority(tasks[i].priority)
        /\ tasks[i].is_done \in BOOLEAN

====
